---- MODULE Spec2Model ----
(***************************************************************************)
(* Model of pearbot's webhook service (src/main.py).                       *)
(*                                                                         *)
(* Every inbound POST /webhook is one request task.  The server runs the   *)
(* request tasks concurrently, so the steps of a task interleave with the  *)
(* steps of the other tasks at every access to the shared session store.   *)
(* The session store (module storage) and the collaborators (auth, agents, *)
(* the platform client) are seen through the calls main.py makes to them.  *)
(***************************************************************************)
EXTENDS Integers, Sequences, FiniteSets, TLC

\* ---------------------------------------------------------------- bounds
MaxReq == 2         \* webhook requests delivered, possibly concurrently
MaxPullRequest == 1 \* of which pull_request events with a valid signature

Reqs  == 1..MaxReq
Insts == Reqs                \* a Session instance is named by the request that created it

\* The pull requests (issues) the events are about.  The program only ever
\* compares keys for equality, so two of them show every same-key and every
\* different-key case.
Repo    == "octo/repo"
Numbers == {7, 42}
Keys    == Numbers \X {Repo}

\* ------------------------------------------------------------ the inputs
Events == {"pull_request", "pull_request_review", "issue_comment", "push"}

ActionOf(ev) ==
    CASE ev = "pull_request"        -> "opened"
      [] ev = "pull_request_review" -> "submitted"
      [] ev = "issue_comment"       -> "created"
      [] OTHER                      -> "pushed"

\* One inbound request: signature validity, X-GitHub-Event header, payload.
\* is_pr: the payload's issue has a pull_request field.
Request(sig, ev, n, ispr) ==
    [sig |-> sig, event |-> ev, repo |-> Repo, number |-> n,
     action |-> ActionOf(ev), title |-> "Fix bug", body |-> "Fixes #1",
     login |-> "alice", state |-> "approved", text |-> "LGTM",
     is_pr |-> ispr]

\* Only an issue_comment payload carries an issue.
Requests ==
    { Request(s, e, n, p) :
        s \in BOOLEAN, e \in Events, n \in Numbers, p \in BOOLEAN }

WellShaped(r) == r.is_pr => r.event = "issue_comment"

\* The request tasks are interchangeable, so they are named in the order of
\* their requests' contents: RequestRank orders the contents.
EventRank(ev) ==
    CASE ev = "pull_request"        -> 1
      [] ev = "pull_request_review" -> 2
      [] ev = "issue_comment"       -> 3
      [] ev = "push"                -> 4
      [] OTHER                      -> 0

RequestRank(r) ==
    EventRank(r.event) * 1000 + r.number * 2 + (IF r.is_pr THEN 1 ELSE 0)

NoRequest == Request(TRUE, "", 0, FALSE)

\* A request whose signature check failed: webhook() reads the event header
\* and parses the payload only after the check.
Unparsed == Request(FALSE, "", 0, FALSE)

\* ------------------------------------------------------------- the state
VARIABLES
    pc,          \* position of each request task
    req,         \* the request each task serves
    status,      \* HTTP status answered (0: none yet)
    error,       \* the exception that ended the task ("none")
    invoked,     \* handler the router invoked for the task ("none")
    session,     \* the handler's local `session` (0: unbound)
    registry,    \* storage: key -> registered Session instance (0: none)
    instKey,     \* storage: key each Session instance was created for (NoKey:
                 \* no such instance yet)
    transcript,  \* storage: messages of each Session instance
    called,      \* add_message calls each task has made, in call order
    extcalls,    \* calls each task has made to the collaborators
    file_comments, \* the handler's local `file_comments` ("none": unset)
    published,   \* how the publishing step of the task ended ("none": not run)
    posted       \* the review comments each task has posted to the platform

vars == <<pc, req, status, error, invoked, session, registry, instKey,
          transcript, called, extcalls, file_comments, published, posted>>

store == <<registry, instKey, transcript>>

NoKey == <<0, "">>

Init ==
    /\ pc = [t \in Reqs |-> "idle"]
    /\ req = [t \in Reqs |-> NoRequest]
    /\ status = [t \in Reqs |-> 0]
    /\ error = [t \in Reqs |-> "none"]
    /\ invoked = [t \in Reqs |-> "none"]
    /\ session = [t \in Reqs |-> 0]
    /\ registry = [k \in Keys |-> 0]
    /\ instKey = [i \in Insts |-> NoKey]
    /\ transcript = [i \in Insts |-> <<>>]
    /\ called = [t \in Reqs |-> <<>>]
    /\ extcalls = [t \in Reqs |-> <<>>]
    /\ file_comments = [t \in Reqs |-> "none"]
    /\ published = [t \in Reqs |-> "none"]
    /\ posted = [t \in Reqs |-> {}]

\* ------------------------------------------------------ message contents
\* The formatted strings, kept as the format used and the values it embeds.
Content(fmt, n, a, x, y) == [fmt |-> fmt, number |-> n, action |-> a, x |-> x, y |-> y]

\* The system message formatted with the body in the place of the title.
SystemText_with_body(r) ==
    Content("Pull Request #{} {}: {}", r.number, r.action, r.body, "")

\* f"Pull Request #{pr['number']} {action}: {pr['title']}"
SystemText(r) == Content("Pull Request #{} {}: {}", r.number, r.action, r.title, "")

\* f"Description: {pr['body']}"
DescriptionText(r) == Content("Description: {}", 0, "", r.body, "")

\* f"Review by {review['user']['login']}: {review['state']}\nComment: {review['body']}"
ReviewText(r) == Content("Review by {}: {}\nComment: {}", 0, r.state, r.login, r.text)

\* f"Comment by {comment['user']['login']}: {comment['body']}"
CommentText(r) == Content("Comment by {}: {}", 0, "", r.login, r.text)

\* json.dumps(file_comments)
AssistantText(fc) == Content("json.dumps", 0, "", fc, "")

\* A transcript entry; `by` is the request whose call appended it.
Message(t, role, content) == [role |-> role, content |-> content, by |-> t]

\* The arguments of get_or_create_session: (number, repository full name).
KeyOf(r) == <<r.number, r.repo>>

\* ------------------------------------------------------ the session store
\* get_or_create: the registered instance of the key, else a new one,
\* created and registered atomically.
get_or_create_session(t, k) ==
    IF registry[k] # 0
    THEN /\ session' = [session EXCEPT ![t] = registry[k]]
         /\ UNCHANGED <<registry, instKey>>
    ELSE /\ registry' = [registry EXCEPT ![k] = t]
         /\ instKey' = [instKey EXCEPT ![t] = k]
         /\ session' = [session EXCEPT ![t] = t]

\* add_message as a read-modify-write on a stale copy: the entry replaces the
\* last one when another task appended in between.
add_message_lost_update(t, role, content) ==
    /\ transcript' = [transcript EXCEPT
          ![session[t]] =
              IF @ # <<>> /\ @[Len(@)].by # t
              THEN [@ EXCEPT ![Len(@)] = Message(t, role, content)]
              ELSE Append(@, Message(t, role, content))]
    /\ called' = [called EXCEPT
                        ![t] = Append(@, [role |-> role, content |-> content])]

\* Session.add_message: appends one message to the instance's transcript.
add_message(t, role, content) ==
    /\ transcript' = [transcript EXCEPT
                        ![session[t]] = Append(@, Message(t, role, content))]
    /\ called' = [called EXCEPT
                        ![t] = Append(@, [role |-> role, content |-> content])]

\* ---------------------------------------------------- ends of a request
\* webhook() returns 'Webhook received', 200.
Return200(t) ==
    /\ pc' = [pc EXCEPT ![t] = "responded"]
    /\ status' = [status EXCEPT ![t] = 200]
    /\ UNCHANGED error

\* An exception leaves the handler and webhook(): the framework answers 500.
Raise(t, e) ==
    /\ pc' = [pc EXCEPT ![t] = "responded"]
    /\ status' = [status EXCEPT ![t] = 500]
    /\ error' = [error EXCEPT ![t] = e]

\* abort(401)
Abort401(t) ==
    /\ pc' = [pc EXCEPT ![t] = "responded"]
    /\ status' = [status EXCEPT ![t] = 401]
    /\ UNCHANGED error

Goto(t, l) ==
    /\ pc' = [pc EXCEPT ![t] = l]
    /\ UNCHANGED <<status, error>>

\* payload[...] of a field the payload may lack: the read succeeds and the
\* task goes on to l, or it raises KeyError.
ReadField(t, field, l) ==
    \E present \in BOOLEAN :
        IF present THEN Goto(t, l) ELSE Raise(t, "KeyError: " \o field)

\* analyze_pr called without a bound: the local model may never answer.
Responds_unless_analysis(name) == name # "analyze_pr"

\* A collaborator call is bounded by a timeout: it returns or raises. main.py
\* passes no timeout, the bound is the callee's.
Responds(name) == TRUE

CallExternal(t, name) ==
    /\ Responds(name)
    /\ extcalls' = [extcalls EXCEPT ![t] = Append(@, name)]

\* ------------------------------------------------------------- webhook()
\* Entry of handle_pull_request: the payload fields read before the session.
handle_pull_request(t) ==
    /\ invoked' = [invoked EXCEPT ![t] = "handle_pull_request"]
    /\ ReadField(t, "installation", "pr_session")

\* The review handler handed to a background thread: webhook() answers 200
\* at once and the handler runs after the response.
handle_pull_request_review_deferred(t) ==
    /\ invoked' = [invoked EXCEPT ![t] = "handle_pull_request_review"]
    /\ pc' = [pc EXCEPT ![t] = "rv_session"]
    /\ status' = [status EXCEPT ![t] = 200]
    /\ UNCHANGED error

\* Entry of handle_pull_request_review.
handle_pull_request_review(t) ==
    /\ invoked' = [invoked EXCEPT ![t] = "handle_pull_request_review"]
    /\ Goto(t, "rv_session")

\* handle_issue_comment without the test of the issue.
handle_issue_comment_untested(t, r) ==
    /\ invoked' = [invoked EXCEPT ![t] = "handle_issue_comment"]
    /\ Goto(t, "ic_session")

\* Entry of handle_issue_comment, up to the test of the issue.
handle_issue_comment(t, r) ==
    /\ invoked' = [invoked EXCEPT ![t] = "handle_issue_comment"]
    /\ IF r.is_pr THEN Goto(t, "ic_session") ELSE Return200(t)

\* route with a final else: every other event type is handled as a review.
route_else_review(t, r) ==
    CASE r.event = "pull_request" -> handle_pull_request(t)
      [] r.event = "issue_comment" -> handle_issue_comment(t, r)
      [] OTHER                     -> handle_pull_request_review(t)

\* The router: dispatch on the event type header.
route(t, r) ==
    CASE r.event = "pull_request"        -> handle_pull_request(t)
      [] r.event = "pull_request_review" -> handle_pull_request_review(t)
      [] r.event = "issue_comment"       -> handle_issue_comment(t, r)
      [] OTHER -> Return200(t) /\ UNCHANGED invoked

\* What webhook() keeps of the request.
Seen(r) == IF r.sig THEN r ELSE Unparsed

InNameOrder(t, r) ==
    \A u \in Reqs :
        pc[u] # "idle" =>
            /\ u < t => RequestRank(req[u]) <= RequestRank(r)
            /\ u > t => RequestRank(r) <= RequestRank(req[u])

WithinBounds(r) ==
    (r.sig /\ r.event = "pull_request") =>
        Cardinality({u \in Reqs : pc[u] # "idle" /\ req[u].event = "pull_request"})
            < MaxPullRequest

\* verify with the abort forgotten: a rejected request is routed all the same.
verify_without_abort(t, r) == route(t, r)

\* The signature check that opens webhook().
verify(t, r) ==
    IF ~r.sig THEN Abort401(t) /\ UNCHANGED invoked ELSE route(t, r)

\* A request arrives: webhook() up to the handler's first use of the store.
webhook(t) ==
    /\ pc[t] = "idle"
    /\ \E r \in Requests :
         /\ WellShaped(r)
         /\ InNameOrder(t, Seen(r))
         /\ WithinBounds(r)
         /\ req' = [req EXCEPT ![t] = Seen(r)]
         /\ verify(t, r)
    /\ UNCHANGED <<session, store, called, extcalls, file_comments, published, posted>>

\* --------------------------------------------------- handle_pull_request
\* session = get_or_create_session(pr['number'], repo['full_name'])
pr_get_session(t) ==
    /\ pc[t] = "pr_session"
    /\ get_or_create_session(t, KeyOf(req[t]))
    /\ Goto(t, "pr_system")
    /\ UNCHANGED <<req, invoked, transcript, called, extcalls, file_comments, published, posted>>

\* session.add_message("system", ...): its argument reads pr['title'].
pr_add_system(t) ==
    /\ pc[t] = "pr_system"
    /\ \E has_title \in BOOLEAN :
         IF has_title
         THEN add_message(t, "system", SystemText(req[t])) /\ Goto(t, "pr_user")
         ELSE Raise(t, "KeyError: title") /\ UNCHANGED <<transcript, called>>
    /\ UNCHANGED <<req, invoked, session, registry, instKey,
                   extcalls, file_comments, published, posted>>

\* session.add_message("user", ...): its argument reads pr['body']; then the
\* prints, which read pr['user']['login'].
pr_add_user(t) ==
    /\ pc[t] = "pr_user"
    /\ \E has_body \in BOOLEAN, has_user \in BOOLEAN :
         IF has_body
         THEN /\ add_message(t, "user", DescriptionText(req[t]))
              /\ IF has_user THEN Goto(t, "pr_fetch") ELSE Raise(t, "KeyError: user")
         ELSE /\ has_user
              /\ Raise(t, "KeyError: body")
              /\ UNCHANGED <<transcript, called>>
    /\ UNCHANGED <<req, invoked, session, registry, instKey,
                   extcalls, file_comments, published, posted>>

\* Steps 2 to 4, which touch nothing but the handler's locals:
\*   access_token = get_installation_access_token(installation_id)
\*   Github(access_token), get_repo, get_pull, get_files
\*   building pr_data, which iterates the paginated file list.
\* The calls are made in this order; each returns, or raises (an API error,
\* a timeout) and the exception leaves the handler.
FetchCalls == <<"get_installation_access_token", "get_files", "iterate diff_files">>

\* Steps 2 to 4 inside a try that logs the exception and goes on.
pr_fetch_swallowing(t) ==
    /\ pc[t] = "pr_fetch"
    /\ \E made \in 1..Len(FetchCalls), ok \in BOOLEAN :
         /\ ok => made = Len(FetchCalls)
         /\ extcalls' = [extcalls EXCEPT ![t] = @ \o SubSeq(FetchCalls, 1, made)]
         /\ pc' = [pc EXCEPT ![t] = "pr_analyze"]
         /\ error' = [error EXCEPT ![t] = IF ok THEN @ ELSE FetchCalls[made]]
         /\ UNCHANGED status
    /\ UNCHANGED <<req, invoked, session, store, called, file_comments, published, posted>>

pr_fetch(t) ==
    /\ pc[t] = "pr_fetch"
    /\ \E made \in 1..Len(FetchCalls), ok \in BOOLEAN :
         /\ ok => made = Len(FetchCalls)
         /\ \A c \in 1..made : Responds(FetchCalls[c])
         /\ extcalls' = [extcalls EXCEPT ![t] = @ \o SubSeq(FetchCalls, 1, made)]
         /\ IF ok THEN Goto(t, "pr_analyze") ELSE Raise(t, FetchCalls[made])
    /\ UNCHANGED <<req, invoked, session, store, called, file_comments, published, posted>>

\* The mapping file path -> line number -> comment text that analyze_pr
\* returns, as its (file, line, text) entries.
Mapping == {<<"a.py", 12, "missing null check">>, <<"b.py", 3, "unused import">>}

\* review_comments, built by the loops over file_comments.items(): one
\* {path, line, body} per entry of the mapping.
review_comments(t) ==
    IF file_comments[t] = "mapping"
    THEN {[path |-> e[1], line |-> e[2], body |-> e[3]] : e \in Mapping}
    ELSE {}

\* file_comments = code_review_agent.analyze_pr(pr_data), then the loops over
\* file_comments.items(): an aggregate comment text has no items().
pr_analyze(t) ==
    /\ pc[t] = "pr_analyze"
    /\ CallExternal(t, "analyze_pr")
    /\ \E shape \in {"mapping", "aggregate", "raise"} :
         IF shape = "raise"
         THEN Raise(t, "analyze_pr") /\ UNCHANGED file_comments
         ELSE /\ file_comments' = [file_comments EXCEPT ![t] = shape]
              /\ IF shape = "aggregate"
                 THEN Raise(t, "AttributeError: items")
                 ELSE Goto(t, "pr_publish")
    /\ UNCHANGED <<req, invoked, session, store, called, published, posted>>

\* The publishing step without its try: an exception leaves the handler.
pr_publish_uncaught(t) ==
    /\ pc[t] = "pr_publish"
    /\ CallExternal(t, "get_commits")
    /\ \E outcome \in {"ok", "GithubException", "Exception"} :
         /\ published' = [published EXCEPT ![t] = outcome]
         /\ IF outcome = "ok" THEN Goto(t, "pr_assistant") ELSE Raise(t, outcome)
    /\ UNCHANGED <<req, invoked, session, store, called, file_comments, posted>>

\* The publishing step: try: get_commits ... except GithubException / Exception.
pr_publish(t) ==
    /\ pc[t] = "pr_publish"
    /\ CallExternal(t, "get_commits")
    /\ \E outcome \in {"ok", "GithubException", "Exception"} :
         published' = [published EXCEPT ![t] = outcome]
    \* create_review and create_review_comment are commented out: the step
    \* prints "Posted review with {len(review_comments)} comments", posts none.
    /\ UNCHANGED posted
    /\ Goto(t, "pr_assistant")
    /\ UNCHANGED <<req, invoked, session, store, called, file_comments>>

\* The assistant message written inside the try block of the publishing step:
\* a failed publishing step leaves the session without it.
pr_add_assistant_skipping(t) ==
    /\ pc[t] = "pr_assistant"
    /\ IF published[t] = "ok"
       THEN add_message(t, "assistant", AssistantText(file_comments[t]))
       ELSE UNCHANGED <<transcript, called>>
    /\ Return200(t)
    /\ UNCHANGED <<req, invoked, session, registry, instKey,
                   extcalls, file_comments, published, posted>>

\* The assistant message written by assignment, session.messages = [reply]:
\* the reply replaces the conversation instead of extending it.
pr_add_assistant_resetting(t) ==
    /\ pc[t] = "pr_assistant"
    /\ transcript' = [transcript EXCEPT ![session[t]] =
          <<Message(t, "assistant", AssistantText(file_comments[t]))>>]
    /\ called' = [called EXCEPT ![t] =
          Append(@, [role |-> "assistant",
                     content |-> AssistantText(file_comments[t])])]
    /\ Return200(t)
    /\ UNCHANGED <<req, invoked, session, registry, instKey,
                   extcalls, file_comments, published, posted>>

\* session.add_message("assistant", json.dumps(file_comments)); the handler
\* returns and webhook() answers 200.
pr_add_assistant(t) ==
    /\ pc[t] = "pr_assistant"
    /\ add_message(t, "assistant", AssistantText(file_comments[t]))
    /\ Return200(t)
    /\ UNCHANGED <<req, invoked, session, registry, instKey,
                   extcalls, file_comments, published, posted>>

\* -------------------------------------------- handle_pull_request_review
\* The review handler building a Session of its own instead of asking the store.
rv_get_session_private(t) ==
    /\ pc[t] = "rv_session"
    /\ session' = [session EXCEPT ![t] = t]
    /\ instKey' = [instKey EXCEPT ![t] = KeyOf(req[t])]
    /\ UNCHANGED registry
    /\ Goto(t, "rv_user")
    /\ UNCHANGED <<req, invoked, transcript, called, extcalls, file_comments, published, posted>>

\* session = get_or_create_session(pr['number'], repo['full_name'])
rv_get_session(t) ==
    /\ pc[t] = "rv_session"
    /\ get_or_create_session(t, KeyOf(req[t]))
    /\ Goto(t, "rv_user")
    /\ UNCHANGED <<req, invoked, transcript, called, extcalls, file_comments, published, posted>>

\* The review handler with its placeholder reply (the add_message("assistant",
\* ...) that lines 153-154 keep as a comment) switched on.
rv_add_user_replying(t) ==
    /\ pc[t] = "rv_user"
    /\ \E has_user \in BOOLEAN :
         IF has_user
         THEN /\ transcript' = [transcript EXCEPT ![session[t]] =
                     Append(Append(@, Message(t, "user", ReviewText(req[t]))),
                            Message(t, "assistant", AssistantText("placeholder")))]
              /\ called' = [called EXCEPT ![t] =
                     Append(Append(@, [role |-> "user", content |-> ReviewText(req[t])]),
                            [role |-> "assistant",
                             content |-> AssistantText("placeholder")])]
              /\ Return200(t)
         ELSE Raise(t, "KeyError: user") /\ UNCHANGED <<transcript, called>>
    /\ UNCHANGED <<req, invoked, session, registry, instKey,
                   extcalls, file_comments, published, posted>>

\* session.add_message("user", ...): its argument reads review['user'].
rv_add_user(t) ==
    /\ pc[t] = "rv_user"
    /\ \E has_user \in BOOLEAN :
         IF has_user
         THEN add_message(t, "user", ReviewText(req[t])) /\ Return200(t)
         ELSE Raise(t, "KeyError: user") /\ UNCHANGED <<transcript, called>>
    /\ UNCHANGED <<req, invoked, session, registry, instKey,
                   extcalls, file_comments, published, posted>>

\* --------------------------------------------------- handle_issue_comment
\* The comment handler keying the session by comment['id'] instead of
\* issue['number']: the id is the number of another pull request.
ic_get_session_by_comment_id(t) ==
    /\ pc[t] = "ic_session"
    /\ \E id \in Numbers \ {req[t].number} :
         get_or_create_session(t, <<id, req[t].repo>>)
    /\ Goto(t, "ic_user")
    /\ UNCHANGED <<req, invoked, transcript, called, extcalls, file_comments, published, posted>>

\* session = get_or_create_session(issue['number'], repo['full_name'])
ic_get_session(t) ==
    /\ pc[t] = "ic_session"
    /\ get_or_create_session(t, KeyOf(req[t]))
    /\ Goto(t, "ic_user")
    /\ UNCHANGED <<req, invoked, transcript, called, extcalls, file_comments, published, posted>>

\* session.add_message("user", ...): its argument reads comment['body'].
ic_add_user(t) ==
    /\ pc[t] = "ic_user"
    /\ \E has_body \in BOOLEAN :
         IF has_body
         THEN add_message(t, "user", CommentText(req[t])) /\ Return200(t)
         ELSE Raise(t, "KeyError: body") /\ UNCHANGED <<transcript, called>>
    /\ UNCHANGED <<req, invoked, session, registry, instKey,
                   extcalls, file_comments, published, posted>>

\* ------------------------------------------------------ the specification
Next ==
    \E t \in Reqs :
        \/ webhook(t)
        \/ pr_get_session(t)
        \/ pr_add_system(t)
        \/ pr_add_user(t)
        \/ pr_fetch(t)
        \/ pr_analyze(t)
        \/ pr_publish(t)
        \/ pr_add_assistant(t)
        \/ rv_get_session(t)
        \/ rv_add_user(t)
        \/ ic_get_session(t)
        \/ ic_add_user(t)

Spec == Init /\ [][Next]_vars

\* ------------------------------------------------- sequential delivery
\* The sender waits for the response of each request before it sends the
\* next: request t arrives when every request before it has its response.
webhook_in_turn(t) ==
    /\ pc[t] = "idle"
    /\ \A u \in Reqs : u < t => status[u] # 0
    /\ \A u \in Reqs : u > t => pc[u] = "idle"
    /\ \E r \in Requests :
         /\ WellShaped(r)
         /\ WithinBounds(r)
         /\ req' = [req EXCEPT ![t] = Seen(r)]
         /\ verify(t, r)
    /\ UNCHANGED <<session, store, called, extcalls, file_comments, published, posted>>

NextSequential ==
    \E t \in Reqs :
        \/ webhook_in_turn(t)
        \/ pr_get_session(t)
        \/ pr_add_system(t)
        \/ pr_add_user(t)
        \/ pr_fetch(t)
        \/ pr_analyze(t)
        \/ pr_publish(t)
        \/ pr_add_assistant(t)
        \/ rv_get_session(t)
        \/ rv_add_user(t)
        \/ ic_get_session(t)
        \/ ic_add_user(t)

SpecSequential == Init /\ [][NextSequential]_vars

\* ------------------------------------------------------------- fairness
\* Each request is served by a thread of its own that the scheduler keeps
\* running; main.py takes no lock, so a handler never waits for another.
HandlerStep(t) ==
    \/ pr_get_session(t)
    \/ pr_add_system(t)
    \/ pr_add_user(t)
    \/ pr_fetch(t)
    \/ pr_analyze(t)
    \/ pr_publish(t)
    \/ pr_add_assistant(t)
    \/ rv_get_session(t)
    \/ rv_add_user(t)
    \/ ic_get_session(t)
    \/ ic_add_user(t)

FairSpec == Spec /\ \A t \in Reqs : WF_vars(HandlerStep(t))

\* ============================================================ properties
Arrived(t)  == pc[t] # "idle"
Answered(t) == pc[t] = "responded"
Verified(t) == Arrived(t) /\ req[t].sig

\* The entries of a transcript that request t appended, in transcript order.
RECURSIVE By(_, _)
By(seq, t) ==
    IF seq = <<>> THEN <<>>
    ELSE IF Head(seq).by = t THEN <<Head(seq)>> \o By(Tail(seq), t)
         ELSE By(Tail(seq), t)

\* What an add_message call of request t leaves in a transcript.
Entry(t, c) == [role |-> c.role, content |-> c.content, by |-> t]
Entries(t)  == [j \in 1..Len(called[t]) |-> Entry(t, called[t][j])]

\* Request t has left no trace in the session store.
NoTraceOf(t) ==
    /\ session[t] = 0
    /\ instKey[t] = NoKey
    /\ called[t] = <<>>
    /\ \A i \in Insts : By(transcript[i], t) = <<>>

SomeTranscript == \E i \in Insts : transcript[i] # <<>>

\* The two messages of step 1 of the pull_request handler, written out.
Step1System(t) ==
    [role |-> "system", by |-> t,
     content |-> [fmt |-> "Pull Request #{} {}: {}", number |-> req[t].number,
                  action |-> req[t].action, x |-> req[t].title, y |-> ""]]
Step1User(t) ==
    [role |-> "user", by |-> t,
     content |-> [fmt |-> "Description: {}", number |-> 0, action |-> "",
                  x |-> req[t].body, y |-> ""]]
Step1(t) == <<Step1System(t), Step1User(t)>>

FirstTwo(seq) == IF Len(seq) >= 2 THEN SubSeq(seq, 1, 2) ELSE seq

IsPullRequest(t) == Verified(t) /\ req[t].event = "pull_request"

\* ---------------------------------------------------------------- C1
\* C1: a request whose signature check fails is answered 401 and nothing
\* else happens: no handler is invoked, no collaborator is called, no
\* session is created and no transcript gets an entry of that request.
C1_RejectedDoesNothing ==
    \A t \in Reqs :
        (Arrived(t) /\ ~req[t].sig) =>
            /\ Answered(t)
            /\ status[t] = 401
            /\ invoked[t] = "none"
            /\ extcalls[t] = <<>>
            /\ NoTraceOf(t)

C1_Witness ==
    \E t \in Reqs :
        /\ Answered(t) /\ ~req[t].sig /\ status[t] = 401
        /\ SomeTranscript

\* ---------------------------------------------------------------- C2
\* C2: once the signature check has passed, the answer is 200 whatever the
\* event type is and however the handler ends.
C2_AlwaysAcknowledged ==
    \A t \in Reqs : (Answered(t) /\ req[t].sig) => status[t] = 200

C4_CallsKeptInOrder ==
    \A t \in Reqs :
        /\ session[t] # 0 => By(transcript[session[t]], t) = Entries(t)
        /\ \A i \in Insts : i # session[t] => By(transcript[i], t) = <<>>
        /\ session[t] = 0 => called[t] = <<>>

\* The entries of two requests interleave in one transcript.
C4_Witness ==
    \E i \in Insts :
        /\ Len(transcript[i]) >= 3
        /\ transcript[i][1].by = transcript[i][3].by
        /\ transcript[i][1].by # transcript[i][2].by

\* ---------------------------------------------------------------- C5
\* C5: the system message and the user message of step 1 of one
\* pull_request handler invocation are adjacent in the transcript.
C5_Step1Adjacent ==
    \A t \in Reqs :
        (IsPullRequest(t) /\ Len(called[t]) >= 2) =>
            \E j \in 1..(Len(transcript[session[t]]) - 1) :
                /\ transcript[session[t]][j] = Step1System(t)
                /\ transcript[session[t]][j + 1] = Step1User(t)

\* ---------------------------------------------------------------- C6
\* C6: an event of an unknown type with a valid signature is answered 200
\* without an error and leaves no trace in the session store.
KnownEvents == {"pull_request", "pull_request_review", "issue_comment"}

C6_UnknownEventIgnored ==
    \A t \in Reqs :
        (Verified(t) /\ req[t].event \notin KnownEvents) =>
            /\ Answered(t)
            /\ status[t] = 200
            /\ error[t] = "none"
            /\ invoked[t] = "none"
            /\ NoTraceOf(t)

C6_Witness ==
    \E t \in Reqs :
        /\ Verified(t) /\ req[t].event = "push" /\ status[t] = 200
        /\ SomeTranscript

\* ---------------------------------------------------------------- C7
\* C7: an issue_comment event on an issue without a pull_request field
\* creates no session and appends to no transcript.
C7_PlainIssueIgnored ==
    \A t \in Reqs :
        (Verified(t) /\ req[t].event = "issue_comment" /\ ~req[t].is_pr) =>
            /\ Answered(t)
            /\ NoTraceOf(t)

C7_Witness ==
    \E t \in Reqs :
        /\ Verified(t) /\ req[t].event = "issue_comment" /\ ~req[t].is_pr
        /\ invoked[t] = "handle_issue_comment"
        /\ SomeTranscript

\* ---------------------------------------------------------------- C8
\* Step 1 of the pull_request handler of t is over and its analysis has not
\* completed.
BeforeAnalysis(t) == IsPullRequest(t) /\ pc[t] \in {"pr_fetch", "pr_analyze"}

\* C8 as stated: ... and on a session the invocation created, the transcript
\* is exactly the two messages of step 1 until the analysis completes.
C8_OnlyStep1UntilAnalysis ==
    \A t \in Reqs :
        (BeforeAnalysis(t) /\ session[t] = t) => transcript[t] = Step1(t)

\* C8 amended: a pull_request event for PR N with action A, title T and body
\* B appends to the session of (repo, N), before any external call, the
\* system message naming N, A and T and then the user message
\* "Description: B"; until the analysis completes these two are all the
\* entries of the invocation, and they are the whole transcript of a
\* session it created unless another request appended to it.
C8_Step1ThenExternal ==
    \A t \in Reqs :
        /\ (IsPullRequest(t) /\ extcalls[t] # <<>>) =>
              /\ Len(called[t]) >= 2
              /\ FirstTwo(By(transcript[session[t]], t)) = Step1(t)
              /\ instKey[session[t]] = <<req[t].number, req[t].repo>>
        /\ BeforeAnalysis(t) =>
              /\ By(transcript[session[t]], t) = Step1(t)
              /\ instKey[session[t]] = <<req[t].number, req[t].repo>>
              /\ (pc[t] = "pr_fetch" => extcalls[t] = <<>>)
              /\ (\A m \in 1..Len(transcript[session[t]]) :
                     transcript[session[t]][m].by = t)
                   => transcript[session[t]] = Step1(t)

C8_Witness ==
    \E t \in Reqs :
        /\ BeforeAnalysis(t) /\ pc[t] = "pr_analyze"
        /\ session[t] = t
        /\ transcript[t] = Step1(t)
        /\ \E u \in Reqs : u # t /\ session[u] = t

\* ---------------------------------------------------------------- C9
\* C9: when credential exchange, diff fetch or request building raises, the
\* handler is over: no analysis, no publishing, no assistant message, and
\* the entries of the invocation in the session are the two of step 1.
FailedInFetch(t) ==
    IsPullRequest(t) /\ \E c \in 1..Len(FetchCalls) : error[t] = FetchCalls[c]

C9_FetchFailureAborts ==
    \A t \in Reqs :
        FailedInFetch(t) =>
            /\ Answered(t)
            /\ \A c \in 1..Len(extcalls[t]) :
                  extcalls[t][c] \notin {"analyze_pr", "get_commits"}
            /\ file_comments[t] = "none"
            /\ published[t] = "none"
            /\ By(transcript[session[t]], t) = Step1(t)

C9_Witness ==
    \E t \in Reqs :
        /\ FailedInFetch(t) /\ error[t] = "get_files"
        /\ Len(transcript[session[t]]) > 2

\* ---------------------------------------------------------------- C10
\* C10: an exception in the publishing step is caught in the handler: the
\* handler goes on to the assistant message, the two entries of step 1 stay,
\* and the answer is 200.
PublishFailed(t) == published[t] \in {"GithubException", "Exception"}

C10_PublishFailureCaught ==
    \A t \in Reqs :
        PublishFailed(t) =>
            /\ error[t] = "none"
            /\ pc[t] \in {"pr_assistant", "responded"}
            /\ FirstTwo(By(transcript[session[t]], t)) = Step1(t)
            /\ Answered(t) =>
                  /\ status[t] = 200
                  /\ Len(By(transcript[session[t]], t)) = 3
                  /\ By(transcript[session[t]], t)[3].role = "assistant"

C10_Witness ==
    \E t \in Reqs :
        /\ published[t] = "GithubException" /\ status[t] = 200
        /\ Len(transcript[session[t]]) > 3

\* ---------------------------------------------------------------- C11
\* C11: when the analysis returned the mapping file -> line -> comment and
\* the publishing step went through, the comments posted to the platform are
\* exactly one per (file, line) entry of the mapping.
MappingReturned(t) == IsPullRequest(t) /\ file_comments[t] = "mapping"

C11_OneCommentPerEntry ==
    \A t \in Reqs :
        (MappingReturned(t) /\ published[t] = "ok") =>
            /\ posted[t] = {[path |-> e[1], line |-> e[2], body |-> e[3]] :
                               e \in Mapping}
            /\ Cardinality(posted[t]) = Cardinality(Mapping)

\* ---------------------------------------------------------------- C12
\* C12: an invocation whose analysis returned the mapping appends exactly one
\* assistant message, the serialized mapping, after its system and user
\* messages and after the publishing step; an invocation whose analysis did
\* not return appends no assistant message.
AssistantEntry(t) ==
    [role |-> "assistant", by |-> t,
     content |-> [fmt |-> "json.dumps", number |-> 0, action |-> "",
                  x |-> "mapping", y |-> ""]]

AssistantCount(t) ==
    Cardinality({j \in 1..Len(called[t]) : called[t][j].role = "assistant"})

C12_OneAssistantAfterPublish ==
    \A t \in Reqs :
        /\ (MappingReturned(t) /\ Answered(t)) =>
              /\ By(transcript[session[t]], t) =
                     <<Step1System(t), Step1User(t), AssistantEntry(t)>>
              /\ published[t] # "none"
        /\ (IsPullRequest(t) /\ AssistantCount(t) > 0) =>
              /\ AssistantCount(t) = 1
              /\ MappingReturned(t)
              /\ published[t] # "none"
              /\ extcalls[t][Len(extcalls[t])] = "get_commits"
        /\ (IsPullRequest(t) /\ error[t] = "analyze_pr") =>
              /\ Answered(t)
              /\ By(transcript[session[t]], t) = Step1(t)

C12_Witness ==
    \E t \in Reqs :
        /\ MappingReturned(t) /\ Answered(t)
        /\ published[t] = "Exception"
        /\ AssistantCount(t) = 1
        /\ Len(transcript[session[t]]) > 3

\* ---------------------------------------------------------------- C13
\* C13: when analyze_pr returns a single aggregate comment text the handler
\* completes without error and appends the assistant message.
C13_AggregateSupported ==
    \A t \in Reqs :
        (IsPullRequest(t) /\ file_comments[t] = "aggregate") =>
            /\ error[t] = "none"
            /\ Answered(t) =>
                  /\ status[t] = 200
                  /\ AssistantCount(t) = 1

\* ---------------------------------------------------------------- C14
\* C14: ingestion is idempotent: when the same event is delivered twice and
\* both deliveries are answered 200, only one of them has appended to the
\* transcript, which therefore equals what the first delivery left.
SameDelivery(t, u) ==
    /\ t # u
    /\ Verified(t) /\ Verified(u)
    /\ req[t] = req[u]
    /\ Answered(t) /\ status[t] = 200
    /\ Answered(u) /\ status[u] = 200

C14_RedeliveryAppendsNothing ==
    \A t, u \in Reqs :
        SameDelivery(t, u) =>
            \/ \A i \in Insts : By(transcript[i], t) = <<>>
            \/ \A i \in Insts : By(transcript[i], u) = <<>>

\* ---------------------------------------------------------------- C15
\* C15: a pull_request_review event, and an issue_comment event on an issue
\* that is a pull request, append one message, of role user, to the session
\* of their key and do nothing else: no collaborator is called, nothing is
\* analyzed or published and no assistant message is appended.
IsReview(t)    == Verified(t) /\ req[t].event = "pull_request_review"
IsPRComment(t) == Verified(t) /\ req[t].event = "issue_comment" /\ req[t].is_pr

ReviewEntry(t) ==
    [role |-> "user", by |-> t,
     content |-> [fmt |-> "Review by {}: {}\nComment: {}", number |-> 0,
                  action |-> req[t].state, x |-> req[t].login, y |-> req[t].text]]
CommentEntry(t) ==
    [role |-> "user", by |-> t,
     content |-> [fmt |-> "Comment by {}: {}", number |-> 0, action |-> "",
                  x |-> req[t].login, y |-> req[t].text]]

C15_OneUserMessageOnly ==
    \A t \in Reqs :
        (IsReview(t) \/ IsPRComment(t)) =>
            /\ extcalls[t] = <<>>
            /\ file_comments[t] = "none"
            /\ published[t] = "none"
            /\ posted[t] = {}
            /\ AssistantCount(t) = 0
            /\ Len(called[t]) <= 1
            /\ (Answered(t) /\ status[t] = 200) =>
                  /\ instKey[session[t]] = <<req[t].number, req[t].repo>>
                  /\ By(transcript[session[t]], t) =
                        <<IF IsReview(t) THEN ReviewEntry(t) ELSE CommentEntry(t)>>
                  /\ \A i \in Insts \ {session[t]} : By(transcript[i], t) = <<>>

C15_Witness ==
    \E t, u \in Reqs :
        /\ IsReview(t) /\ Answered(t) /\ status[t] = 200
        /\ IsPRComment(u) /\ Answered(u) /\ status[u] = 200
        /\ session[t] = session[u]
        /\ Len(transcript[session[t]]) = 2

\* ---------------------------------------------------------------- C16
\* C16 (under SpecSequential, where requests are numbered in arrival order):
\* when each request is answered before the next arrives, every message
\* appended for an earlier event precedes, in the transcript, every message
\* appended for a later event; also when the earlier handler aborted.
C16_ArrivalOrderKept ==
    \A i \in Insts :
        \A j, k \in 1..Len(transcript[i]) :
            j < k => transcript[i][j].by <= transcript[i][k].by

C16_Witness ==
    \E i \in Insts :
        /\ Len(transcript[i]) = 3
        /\ error[1] = "get_files" /\ status[1] = 500
        /\ transcript[i][1].by = 1 /\ transcript[i][2].by = 1
        /\ transcript[i][3].by = 2 /\ status[2] = 200

\* ---------------------------------------------------------------- C17
\* C17: transcripts are append-only under every interleaving: each step
\* leaves every transcript with its former value as a prefix, so a transcript
\* has as a prefix the transcript it had in every earlier state.
IsPrefix(a, b) == Len(a) <= Len(b) /\ SubSeq(b, 1, Len(a)) = a

C17_AppendOnly ==
    [][\A i \in Insts : IsPrefix(transcript[i], transcript'[i])]_vars

C17_Witness ==
    \E i \in Insts :
        /\ Len(transcript[i]) = 4
        /\ transcript[i][1].by # transcript[i][3].by
        /\ transcript[i][3].by # transcript[i][4].by
        /\ transcript[i][4].role = "assistant"

\* ---------------------------------------------------------------- C18
\* C18: a handled event of any type touches only the session keyed by its
\* own (repository full name, number): its session and every entry it
\* appended are those of that key, requests for one key share one session
\* whatever their event types, and a step of a request changes no instance
\* of another key, under every interleaving.
OwnKey(t) == <<req[t].number, req[t].repo>>

C18_InOwnSession ==
    \A t \in Reqs :
        /\ session[t] # 0 =>
              /\ instKey[session[t]] = OwnKey(t)
              /\ registry[OwnKey(t)] = session[t]
        /\ \A i \in Insts :
              By(transcript[i], t) # <<>> => instKey[i] = OwnKey(t)
        /\ \A u \in Reqs :
              (session[t] # 0 /\ session[u] # 0 /\ OwnKey(t) = OwnKey(u))
                  => session[t] = session[u]

C18_StepFrame ==
    \A t \in Reqs :
        pc'[t] # pc[t] =>
            \A i \in Insts :
                (transcript'[i] # transcript[i] \/ instKey'[i] # instKey[i])
                    => instKey'[i] = <<req'[t].number, req'[t].repo>>

\* C18, both halves: what every state holds and what every step leaves alone.
C18_OnlyOwnSession == [](C18_InOwnSession) /\ [][C18_StepFrame]_vars

C18_Witness ==
    \E t, u \in Reqs :
        /\ IsPullRequest(t) /\ pc[t] = "pr_analyze"
        /\ IsPRComment(u) /\ Answered(u) /\ status[u] = 200
        /\ OwnKey(t) # OwnKey(u)
        /\ Len(transcript[session[t]]) = 2
        /\ Len(transcript[session[u]]) = 1

\* ---------------------------------------------------------------- C19
\* C19 (under FairSpec): every external call of the pull_request handler is
\* bounded, so every request that arrived is eventually answered, also when
\* a collaborator fails instead of responding.
InFlight(t) == Arrived(t) /\ ~Answered(t)

MalformedErrors ==
    {"KeyError: installation", "KeyError: title", "KeyError: body",
     "KeyError: user"}

FailedOnPayload(t) == Verified(t) /\ error[t] \in MalformedErrors

C20_MalformedLeavesStore ==
    \A t \in Reqs :
        FailedOnPayload(t) =>
            /\ instKey[t] = NoKey
            /\ \A k \in Keys : registry[k] # t
            /\ \A i \in Insts : By(transcript[i], t) = <<>>

====
